---- MODULE Spec2Model ----
(***************************************************************************)
(* Model of the classroom attendance server (src/server.ts): the students, *)
(* units, lessons and attendance tables, the wall clock, and one action    *)
(* per HTTP handler.  Every handler is synchronous (better-sqlite3 calls   *)
(* do not yield), so a handler is one atomic step.                         *)
(***************************************************************************)
EXTENDS Integers, FiniteSets, Sequences, TLC

\* ---------------------------------------------------------------- bounds
MaxStudents == 2      \* number of student ids ever handed out
MaxUnits == 2         \* number of unit ids ever handed out
MaxLessons == 2       \* number of lesson ids ever handed out
MaxAttendance == 4    \* number of attendance row ids ever handed out

\* ------------------------------------------------------ program constants
MsPerSecond == 1000
MsPerMinute == 1000 * 60
MsPerHour == 1000 * 60 * 60
ExpiryMinutes == 20
ActiveHours == 24
NULL == -1
\* parseInt of a text that does not start with a number.
NaN == -2

\* Codes Math.floor(100000 + Math.random() * 900000).toString() can draw.
OTPs == {"100000", "999999"}
\* Codes a client can submit.
Codes == OTPs
\* Admission numbers a representative can type.
AdmissionNumbers == {"ADM1", "ADM2"}
\* Readings of the wall clock (Date.now(), in ms) the requests are served at.
\* From 1 the expiry window ends exactly at the third and the 24 hours exactly
\* at the fourth; from 0 both are exceeded by one millisecond.
Instants ==
    { 0,
      1,
      ExpiryMinutes * MsPerMinute + 1,
      ActiveHours * MsPerHour + 1 }

\* The workloads explored: how many ids each table hands out in a run, the
\* codes the random source draws, the admission numbers typed, the clock
\* readings requests arrive at and the unit_id values a lesson start
\* carries (0 for none, NaN for a text that is not a number).  A session
\* with several students, a sequence of sessions, and sessions of several
\* units.
Workloads ==
    { [students |-> MaxStudents, units |-> 1, lessons |-> 1,
       attendance |-> MaxAttendance, otps |-> OTPs,
       admissions |-> AdmissionNumbers, instants |-> Instants,
       unit_ids |-> 0..1],
      [students |-> 1, units |-> 1, lessons |-> MaxLessons,
       attendance |-> 3, otps |-> {"100000"},
       admissions |-> {"ADM1"}, instants |-> Instants,
       unit_ids |-> (0..1) \cup {NaN}],
      [students |-> 1, units |-> MaxUnits, lessons |-> MaxLessons,
       attendance |-> 2, otps |-> {"100000"},
       admissions |-> {"ADM1"}, instants |-> {0, 1},
       unit_ids |-> 0..MaxUnits] }

VARIABLES
    workload,       \* the workload of this run, fixed at the start
    now,            \* the wall clock, ms
    foreign_keys,   \* whether the SQLite build enforces FOREIGN KEY clauses
    students,       \* table students: records [id, admission_number]
    units,          \* table units: set of ids
    lessons,        \* table lessons
    attendance,     \* table attendance
    seq,            \* sqlite_sequence: the last AUTOINCREMENT id per table
    req,            \* the last request served
    res,            \* the response sent to it, with the event broadcast
    drawn,          \* the columns the last request filled from Math.random()
    portal          \* the React state of one mounted StudentPortal

vars ==
    <<workload, now, foreign_keys, students, units, lessons, attendance, seq,
      req, res, drawn, portal>>

\* ------------------------------------------------------------- helpers
\* A request: the route and the fields of req.params / req.body the handler
\* reads (0 and "" for the fields the route does not have).
Request(route, lesson_id, student_id, unit_id, otp, admission_number) ==
    [route |-> route, lesson_id |-> lesson_id, student_id |-> student_id,
     unit_id |-> unit_id, otp |-> otp, admission_number |-> admission_number]

\* A response: the HTTP status, the error message of the body ("" if none),
\* the event io.emit broadcast ("none" if none), the id the body carries
\* (0 if none) and the attendance list it carries ({} if none).
Response(status, error, emit, body) ==
    [status |-> status, error |-> error, emit |-> emit, body |-> body,
     attendance |-> {}]

\* A column a handler stores a code drawn from Math.random() in: the table
\* (lessons.lecturer_otp, attendance.otp) and the id of the row.
Draw(table, id) == [table |-> table, id |-> id]

StudentIds == {s.id : s \in students}

\* Variant: the column without its UNIQUE constraint.
AdmissionTakenNever(id, adm) == FALSE

\* admission_number TEXT UNIQUE: whether writing adm to the row with the id
\* fails, because another row holds it.
AdmissionTaken(id, adm) ==
    \E s \in students : s.id # id /\ s.admission_number = adm

\* new Date(start_time).getTime() / now - startTime: elapsed ms.
Elapsed(lesson) == now - lesson.start_time

\* Variant: the window closes at 20 minutes, not after them.
ExpiredAtTwenty(lesson) == Elapsed(lesson) >= ExpiryMinutes * MsPerMinute

\* diffMins > 20, with diffMins = (now - startTime) / (1000 * 60).
Expired(lesson) == Elapsed(lesson) > ExpiryMinutes * MsPerMinute

\* SQLite datetime(): a text with second resolution; compared as text, which
\* orders as the number of whole seconds does.
SqlDatetime(t) == t \div MsPerSecond

\* SELECT ... FROM lessons WHERE datetime(start_time) > datetime('now',
\* '-24 hours') ORDER BY id DESC LIMIT 1: the set holding the row, or {}.
ActiveLessonSql ==
    LET recent == {l \in lessons :
                     SqlDatetime(l.start_time)
                       > SqlDatetime(now) - ActiveHours * 3600}
    IN {l \in recent : \A m \in recent : m.id <= l.id}

\* SELECT l.* FROM lessons l JOIN units u ON l.unit_id = u.id
\* ORDER BY l.id DESC LIMIT 1: the set holding the row, or {}.
LatestLessonJoined ==
    LET joined == {l \in lessons : l.unit_id \in units}
    IN {l \in joined : \A m \in joined : m.id <= l.id}

\* SELECT id FROM students: the ids in rowid order.  (SQL leaves the order
\* open; it only decides which attendance id a student's row gets, and no
\* handler orders or compares attendance ids of different students.)
ScanOrders(ids) ==
    {o \in [1..Cardinality(ids) -> ids] :
        \A i, j \in 1..Cardinality(ids) : i < j => o[i] < o[j]}

\* Variant: the loop over the students stops after the first one.
NewRowsFirstOnly(lessonId, order, otps) ==
    {[id |-> seq.attendance + i, lesson_id |-> lessonId,
      student_id |-> order[i], otp |-> otps[order[i]],
      status |-> "pending", marked_at |-> NULL] : i \in DOMAIN order \cap {1}}

\* The rows INSERT INTO attendance (lesson_id, student_id, otp) adds for the
\* students in scan order, with the column defaults status 'pending' and
\* marked_at NULL.
NewRows(lessonId, order, otps) ==
    {[id |-> seq.attendance + i, lesson_id |-> lessonId,
      student_id |-> order[i], otp |-> otps[order[i]],
      status |-> "pending", marked_at |-> NULL] : i \in DOMAIN order}

\* Variant: a student registered late is still pending.
LateStatusPending(lesson) == "pending"

\* status = diffMins > 20 ? 'absent' : 'pending'
LateStatus(lesson) == IF Expired(lesson) THEN "absent" ELSE "pending"

\* Variant: the sweep without its status = 'pending' condition.
SweepLessonAll(rows, lessonId) ==
    {IF r.lesson_id = lessonId
       THEN [r EXCEPT !.status = "absent"] ELSE r : r \in rows}

\* UPDATE attendance SET status = 'absent' WHERE lesson_id = ? AND
\* status = 'pending'
SweepLesson(rows, lessonId) ==
    {IF r.lesson_id = lessonId /\ r.status = "pending"
       THEN [r EXCEPT !.status = "absent"] ELSE r : r \in rows}

\* Variant: the per-student expiry update also stamps marked_at.
SweepStudentStamps(rows, lessonId, studentId) ==
    {IF r.lesson_id = lessonId /\ r.student_id = studentId
          /\ r.status = "pending"
       THEN [r EXCEPT !.status = "absent", !.marked_at = now] ELSE r
     : r \in rows}

\* Variant: the per-student expiry update without its status = 'pending'
\* condition.
SweepStudentAll(rows, lessonId, studentId) ==
    {IF r.lesson_id = lessonId /\ r.student_id = studentId
       THEN [r EXCEPT !.status = "absent"] ELSE r : r \in rows}

\* UPDATE attendance SET status = 'absent' WHERE lesson_id = ? AND
\* student_id = ? AND status = 'pending'
SweepStudent(rows, lessonId, studentId) ==
    {IF r.lesson_id = lessonId /\ r.student_id = studentId
          /\ r.status = "pending"
       THEN [r EXCEPT !.status = "absent"] ELSE r : r \in rows}

\* SELECT a.* ... FROM attendance a JOIN students s ON a.student_id = s.id
\* WHERE a.lesson_id = ?
AttendanceList(rows, lessonId) ==
    {r \in rows : r.lesson_id = lessonId /\ r.student_id \in StudentIds}

\* Variant: the lookup without its otp = ? condition.
FindRecordAnyCode(lessonId, studentId, otp) ==
    LET match == {r \in attendance : /\ r.lesson_id = lessonId
                                     /\ r.student_id = studentId}
    IN {r \in match : \A q \in match : r.id <= q.id}

\* SELECT * FROM attendance WHERE lesson_id = ? AND student_id = ? AND
\* otp = ?, .get(): the first matching row in rowid order, or {}.
FindRecord(lessonId, studentId, otp) ==
    LET match == {r \in attendance : /\ r.lesson_id = lessonId
                                     /\ r.student_id = studentId
                                     /\ r.otp = otp}
    IN {r \in match : \A q \in match : r.id <= q.id}

\* Variant: the UPDATE sets the status only.
MarkPresentNoStamp(rows, rowId) ==
    {IF r.id = rowId THEN [r EXCEPT !.status = "present"] ELSE r : r \in rows}

\* Variant: the UPDATE reaches every row that holds the code of the row.
MarkPresentByCode(rows, rowId) ==
    {IF \E q \in rows : q.id = rowId /\ q.otp = r.otp
       THEN [r EXCEPT !.status = "present", !.marked_at = now] ELSE r
     : r \in rows}

\* UPDATE attendance SET status = 'present', marked_at = ? WHERE id = ?
MarkPresent(rows, rowId) ==
    {IF r.id = rowId
       THEN [r EXCEPT !.status = "present", !.marked_at = now] ELSE r
     : r \in rows}

\* Variant: the handler without its 'Already marked present' check.
AlreadyPresentNever(record) == FALSE

\* if (record.status === 'present') return ... 'Already marked present'
AlreadyPresent(record) == record.status = "present"

\* Variant: restart without its DELETE.
ResetRowsKeepsAll(rows, lessonId) == rows

\* DELETE FROM attendance WHERE lesson_id = ?
ResetRows(rows, lessonId) == {r \in rows : r.lesson_id # lessonId}

\* Variant: the student delete without its DELETE FROM attendance.
DeleteStudentRowsNone(rows, studentId) == rows

\* DELETE FROM attendance WHERE student_id = ?
DeleteStudentRows(rows, studentId) ==
    {r \in rows : r.student_id # studentId}

\* Variant: the unit delete removes the rows of every lesson.
DeleteLessonRowsAll(rows, lessonIds) == {}

\* for (const lesson of lessons) DELETE FROM attendance WHERE lesson_id = ?
DeleteLessonRows(rows, lessonIds) ==
    {r \in rows : r.lesson_id \notin lessonIds}

\* Variant: enable-otp toggles the flag.
EnableUpdateToggles(lesson) ==
    [lesson EXCEPT !.otp_enabled = 1 - lesson.otp_enabled]

\* UPDATE lessons SET otp_enabled = 1 WHERE id = ?
EnableUpdate(lesson) == [lesson EXCEPT !.otp_enabled = 1]

\* Variant: the handler without its code comparison.
InvalidLecturerOtpNever(lesson, otp) == FALSE

\* if (lesson.lecturer_otp !== otp) return ... 'Invalid Lecturer OTP'
InvalidLecturerOtp(lesson, otp) == lesson.lecturer_otp # otp

\* UPDATE lessons SET lecturer_present = 1 WHERE id = ?
LecturerUpdate(lesson) == [lesson EXCEPT !.lecturer_present = 1]

\* Variant: restart also clears lecturer_present.
RestartUpdateClearsLecturer(lesson) ==
    [lesson EXCEPT !.start_time = now, !.otp_enabled = 0,
                   !.lecturer_present = 0]

\* Variant: restart without the new start_time.
RestartUpdateKeepsStart(lesson) == [lesson EXCEPT !.otp_enabled = 0]

\* UPDATE lessons SET start_time = ?, end_time = ?, otp_enabled = 0
\* WHERE id = ?
RestartUpdate(lesson) ==
    [lesson EXCEPT !.start_time = now, !.otp_enabled = 0]

\* parseInt(unit_id), as the INSERT stores it: SQLite stores a NaN as NULL.
UnitIdNum(unit_id) == IF unit_id = NaN THEN NULL ELSE unit_id

\* FOREIGN KEY(unit_id) REFERENCES units(id): whether the INSERT of a lesson
\* with the unit_id fails.  A NULL unit_id is not checked.
UnitMissing(unitId) == foreign_keys /\ unitId # NULL /\ unitId \notin units

\* The row INSERT INTO lessons (...) adds: lecturer_present and otp_enabled
\* take their column default 0.
NewLesson(unitId, lecturerOtp) ==
    [id |-> seq.lessons + 1, unit_id |-> unitId, start_time |-> now,
     lecturer_otp |-> lecturerOtp, lecturer_present |-> 0, otp_enabled |-> 0]

\* ------------------------------------------------------------ handlers
\* POST /api/students
PostStudent(adm) ==
    /\ req' = Request("POST /api/students", 0, 0, 0, "", adm)
    /\ UNCHANGED <<portal, workload, now, foreign_keys, units, lessons>>
    /\ IF AdmissionTaken(seq.students + 1, adm)
         THEN /\ res' = Response(400,
                                 "Admission number already exists", "none", 0)
              /\ UNCHANGED <<students, attendance, seq>>
              /\ drawn' = {}
         ELSE /\ seq.students < workload.students
              /\ LET studentId == seq.students + 1 IN
                 /\ students' = students \cup
                       {[id |-> studentId, admission_number |-> adm]}
                 /\ res' = Response(200, "",
                       IF ActiveLessonSql # {} THEN "attendance-updated"
                                               ELSE "none", studentId)
                 /\ IF ActiveLessonSql # {}
                      THEN /\ seq.attendance < workload.attendance
                           /\ \E activeLesson \in ActiveLessonSql,
                                 otp \in workload.otps :
                                attendance' = attendance \cup
                                  {[id |-> seq.attendance + 1,
                                    lesson_id |-> activeLesson.id,
                                    student_id |-> studentId, otp |-> otp,
                                    status |-> LateStatus(activeLesson),
                                    marked_at |-> NULL]}
                           /\ seq' = [seq EXCEPT !.students = studentId,
                                         !.attendance = seq.attendance + 1]
                           /\ drawn' = {Draw("attendance",
                                              seq.attendance + 1)}
                      ELSE /\ attendance' = attendance
                           /\ seq' = [seq EXCEPT !.students = studentId]
                           /\ drawn' = {}

\* POST /api/units
PostUnit ==
    /\ req' = Request("POST /api/units",
                    0, 0, 0, "", "")
    /\ drawn' = {}
    /\ seq.units < workload.units
    /\ units' = units \cup {seq.units + 1}
    /\ seq' = [seq EXCEPT !.units = seq.units + 1]
    /\ res' = Response(200, "", "none", seq.units + 1)
    /\ UNCHANGED <<portal, workload, now, foreign_keys, students, lessons,
                   attendance>>

\* PUT /api/students/:id
PutStudent(id, adm) ==
    /\ req' = Request("PUT /api/students/:id", 0, id, 0, "", adm)
    /\ drawn' = {}
    /\ UNCHANGED <<portal, workload, now, foreign_keys, units, lessons,
                   attendance, seq>>
    /\ IF id \in StudentIds /\ AdmissionTaken(id, adm)
         THEN /\ res' = Response(400,
                                 "Admission number already exists", "none", 0)
              /\ UNCHANGED students
         ELSE /\ students' = {IF s.id = id
                                THEN [s EXCEPT !.admission_number = adm]
                                ELSE s : s \in students}
              /\ res' = Response(200, "", "none", 0)

\* DELETE /api/students/:id
DeleteStudent(id) ==
    /\ req' = Request("DELETE /api/students/:id", 0, id, 0, "", "")
    /\ drawn' = {}
    /\ attendance' = DeleteStudentRows(attendance, id)
    /\ students' = {s \in students : s.id # id}
    /\ res' = Response(200, "", "none", 0)
    /\ UNCHANGED <<portal, workload, now, foreign_keys, units, lessons, seq>>

\* DELETE /api/units/:id
DeleteUnit(id) ==
    /\ req' = Request("DELETE /api/units/:id", 0, 0, id, "", "")
    /\ drawn' = {}
    /\ LET doomed == {l.id : l \in {m \in lessons : m.unit_id = id}} IN
         attendance' = DeleteLessonRows(attendance, doomed)
    /\ lessons' = {l \in lessons : l.unit_id # id}
    /\ units' = units \ {id}
    /\ res' = Response(200, "", "none", 0)
    /\ UNCHANGED <<portal, workload, now, foreign_keys, students, seq>>

\* POST /api/lessons/start; unit_id 0 stands for a request without unit_id
\* and NaN for one whose unit_id is not a number.
StartLesson(unit_id) ==
    /\ req' = Request("POST /api/lessons/start", 0, 0, unit_id, "", "")
    /\ UNCHANGED <<portal, workload, now, foreign_keys, students, units>>
    /\ IF unit_id = 0
         THEN /\ res' = Response(400,
                                 "Unit ID is required", "none", 0)
              /\ UNCHANGED <<lessons, attendance, seq>>
              /\ drawn' = {}
         ELSE IF UnitMissing(UnitIdNum(unit_id))
         THEN /\ res' = Response(500,
                                 "FOREIGN KEY constraint failed", "none", 0)
              /\ UNCHANGED <<lessons, attendance, seq>>
              /\ drawn' = {}
         ELSE /\ seq.lessons < workload.lessons
              /\ seq.attendance + Cardinality(students) <= workload.attendance
              /\ \E lecturer_otp \in workload.otps,
                    order \in ScanOrders(StudentIds),
                    otps \in [StudentIds -> workload.otps] :
                   /\ lessons' = lessons \cup
                         {NewLesson(UnitIdNum(unit_id), lecturer_otp)}
                   /\ attendance' = attendance \cup
                         NewRows(seq.lessons + 1, order, otps)
                   /\ drawn' = {Draw("lessons", seq.lessons + 1)} \cup
                         {Draw("attendance", r.id) :
                            r \in NewRows(seq.lessons + 1, order, otps)}
              /\ seq' = [seq EXCEPT !.lessons = seq.lessons + 1,
                            !.attendance = seq.attendance + Cardinality(students)]
              /\ res' = Response(200, "",
                                 "attendance-updated", seq.lessons + 1)

\* POST /api/lecturer/mark
LecturerMark(lesson_id, otp) ==
    /\ req' = Request("POST /api/lecturer/mark", lesson_id, 0, 0, otp, "")
    /\ drawn' = {}
    /\ UNCHANGED <<portal, workload, now, foreign_keys, students, units,
                   attendance, seq>>
    /\ LET lesson == {l \in lessons : l.id = lesson_id} IN
       IF lesson = {}
         THEN /\ res' = Response(404,
                                 "Lesson not found", "none", 0)
              /\ UNCHANGED lessons
         ELSE IF \E l \in lesson : InvalidLecturerOtp(l, otp)
         THEN /\ res' = Response(400,
                                 "Invalid Lecturer OTP", "none", 0)
              /\ UNCHANGED lessons
         ELSE /\ lessons' = {IF l.id = lesson_id
                               THEN LecturerUpdate(l)
                               ELSE l : l \in lessons}
              /\ res' = Response(200, "",
                                 "attendance-updated", 0)

\* POST /api/lessons/restart
RestartLesson ==
    /\ req' = Request("POST /api/lessons/restart",
                    0, 0, 0, "", "")
    /\ UNCHANGED <<portal, workload, now, foreign_keys, students, units>>
    /\ IF ActiveLessonSql = {}
         THEN /\ res' = Response(404,
                                 "No active lesson to restart", "none", 0)
              /\ UNCHANGED <<lessons, attendance, seq>>
              /\ drawn' = {}
         ELSE /\ seq.attendance + Cardinality(students) <= workload.attendance
              /\ \E activeLesson \in ActiveLessonSql,
                    order \in ScanOrders(StudentIds),
                    otps \in [StudentIds -> workload.otps] :
                   /\ lessons' = {IF l.id = activeLesson.id
                                    THEN RestartUpdate(l) ELSE l : l \in lessons}
                   /\ attendance' =
                        ResetRows(attendance, activeLesson.id)
                          \cup NewRows(activeLesson.id, order, otps)
                   /\ drawn' = {Draw("attendance", r.id) :
                                  r \in NewRows(activeLesson.id, order, otps)}
              /\ seq' = [seq EXCEPT
                            !.attendance = seq.attendance + Cardinality(students)]
              /\ res' = Response(200, "",
                                 "attendance-updated", 0)

\* POST /api/lessons/:id/enable-otp
EnableOtp(id) ==
    /\ req' = Request("POST /api/lessons/:id/enable-otp", id, 0, 0, "", "")
    /\ drawn' = {}
    /\ lessons' = {IF l.id = id THEN EnableUpdate(l) ELSE l : l \in lessons}
    /\ res' = Response(200, "",
                       "otp-enabled", 0)
    /\ UNCHANGED <<portal, workload, now, foreign_keys, students, units,
                   attendance, seq>>

\* The handler of GET /api/lessons/active; body is the id of the lesson
\* returned, 0 for null.
Poll ==
    /\ req' = Request("GET /api/lessons/active",
                    0, 0, 0, "", "")
    /\ drawn' = {}
    /\ UNCHANGED <<workload, foreign_keys, students, units, lessons, seq>>
    /\ IF LatestLessonJoined = {}
         THEN /\ res' = Response(200, "", "none", 0)
              /\ UNCHANGED attendance
         ELSE \E lesson \in LatestLessonJoined :
              IF Elapsed(lesson) > ActiveHours * MsPerHour
                THEN /\ res' = Response(200, "",
                                        "none", 0)
                     /\ UNCHANGED attendance
                ELSE /\ attendance' = IF Expired(lesson)
                                        THEN SweepLesson(attendance, lesson.id)
                                        ELSE attendance
                     /\ res' = [Response(200, "", "none", lesson.id)
                                 EXCEPT !.attendance =
                                   AttendanceList(attendance', lesson.id)]

\* GET /api/lessons/active
GetActiveLesson == Poll /\ now' = now /\ UNCHANGED portal

\* The handler of POST /api/attendance/mark.
MarkRequest(lesson_id, student_id, otp) ==
    /\ req' = Request("POST /api/attendance/mark", lesson_id, student_id,
                    0, otp, "")
    /\ drawn' = {}
    /\ UNCHANGED <<workload, now, foreign_keys, students, units, lessons, seq>>
    /\ LET lesson == {l \in lessons : l.id = lesson_id} IN
       IF lesson = {}
         THEN /\ res' = Response(404,
                                 "Lesson not found", "none", 0)
              /\ UNCHANGED attendance
         ELSE IF \E l \in lesson : l.otp_enabled = 0
         THEN /\ res' = Response(400,
                  "OTP input is not yet enabled by the representative",
                  "none", 0)
              /\ UNCHANGED attendance
         ELSE IF \E l \in lesson : Expired(l)
         THEN /\ attendance' = SweepStudent(attendance, lesson_id, student_id)
              /\ res' = Response(400,
                  "OTP has expired (20 minutes elapsed)", "none", 0)
         ELSE IF FindRecord(lesson_id, student_id, otp) = {}
         THEN /\ res' = Response(400,
                                 "Invalid OTP", "none", 0)
              /\ UNCHANGED attendance
         ELSE \E record \in FindRecord(lesson_id, student_id, otp) :
              IF AlreadyPresent(record)
                THEN /\ res' = Response(400,
                                        "Already marked present", "none", 0)
                     /\ UNCHANGED attendance
                ELSE /\ attendance' = MarkPresent(attendance, record.id)
                     /\ res' = Response(200, "",
                                        "attendance-updated", 0)

\* POST /api/attendance/mark
MarkAttendance(lesson_id, student_id, otp) ==
    MarkRequest(lesson_id, student_id, otp) /\ UNCHANGED portal

\* ------------------------------------------------------ student portal
\* The state of StudentPortal when it mounts: no lesson fetched, no student
\* selected ('' is NULL here), the confirmation not shown.
PortalMounted ==
    [activeLesson |-> NULL, selectedStudent |-> NULL, isMarked |-> FALSE]

\* fetchStatus as it would be if isMarked followed the record of the
\* selected student in the fetched list.
FetchedMarkFollowsRecord(list) ==
    /\ portal.selectedStudent # NULL
    /\ \E a \in list :
         a.student_id = portal.selectedStudent /\ a.status = "present"

\* isMarked after fetchStatus has read the list of the active lesson: set
\* when the record of the selected student is present, and otherwise left as
\* it was.
FetchedMark(list) ==
    \/ portal.isMarked
    \/ /\ portal.selectedStudent # NULL
       /\ \E a \in list :
            a.student_id = portal.selectedStudent /\ a.status = "present"

\* fetchStatus: the portal polls the active lesson and stores the answer
\* (the list of students is not kept here: the select element is modelled
\* by SelectStudent).
FetchStatus ==
    /\ Poll
    /\ now' = now
    /\ portal' =
         IF res'.body = 0
           THEN [portal EXCEPT !.activeLesson = NULL]
           ELSE [portal EXCEPT !.activeLesson = res'.body,
                               !.isMarked = FetchedMark(res'.attendance)]

\* The select element of the form, which is rendered while a lesson is
\* active and the confirmation is not shown.
SelectStudent(id) ==
    /\ portal.activeLesson # NULL
    /\ ~portal.isMarked
    /\ portal' = [portal EXCEPT !.selectedStudent = id]
    /\ UNCHANGED <<workload, now, foreign_keys, students, units, lessons,
                   attendance, seq, req, res, drawn>>

\* handleSubmit: the form sends the code for the fetched lesson and the
\* selected student, and shows the confirmation when the answer is ok.
HandleSubmit(otp) ==
    /\ portal.activeLesson # NULL
    /\ portal.selectedStudent # NULL
    /\ ~portal.isMarked
    /\ MarkRequest(portal.activeLesson, portal.selectedStudent, otp)
    /\ portal' = [portal EXCEPT !.isMarked = @ \/ res'.status = 200]

\* --------------------------------------------------------------- clock
Tick ==
    /\ \E t \in workload.instants : t > now /\ now' = t
    /\ UNCHANGED <<workload, foreign_keys, students, units, lessons, attendance,
                   seq, req, res, drawn, portal>>

Init ==
    /\ workload \in Workloads
    /\ now = 0
    \* better-sqlite3 opens a database with foreign key enforcement on.
    /\ foreign_keys = TRUE
    /\ students = {}
    /\ units = {}
    /\ lessons = {}
    /\ attendance = {}
    /\ seq = [students |-> 0, units |-> 0, lessons |-> 0, attendance |-> 0]
    /\ req = Request("none", 0, 0, 0, "", "")
    /\ res = Response(0, "", "none", 0)
    /\ drawn = {}
    /\ portal = PortalMounted

\* The requests clients send.
Requests ==
    \/ \E adm \in workload.admissions : PostStudent(adm)
    \/ PostUnit
    \/ \E id \in 1..workload.students, adm \in workload.admissions :
         PutStudent(id, adm)
    \/ \E id \in 1..workload.students : DeleteStudent(id)
    \/ \E id \in 1..workload.units : DeleteUnit(id)
    \/ \E unit_id \in workload.unit_ids : StartLesson(unit_id)
    \/ \E lesson_id \in 1..workload.lessons, otp \in Codes :
         LecturerMark(lesson_id, otp)
    \/ RestartLesson
    \/ \E id \in 1..workload.lessons : EnableOtp(id)
    \/ GetActiveLesson
    \/ \E lesson_id \in 1..workload.lessons, student_id \in 1..workload.students,
          otp \in Codes : MarkAttendance(lesson_id, student_id, otp)

Next == Tick \/ Requests

Spec == Init /\ [][Next]_vars

\* ================================================================ claims
MarkRoute == "POST /api/attendance/mark"
MarkSucceeded == req.route = MarkRoute /\ res.status = 200
\* Whether row p of the table before a step is the row q after it.
SameRow(p, q) == p.id = q.id
WindowMs == 20 * 60 * 1000
\* The step serves a request on the route: every handler leaves the clock
\* alone and the clock's own step leaves req and res alone.
Serving(route) == now' = now /\ req'.route = route

\* C1: a row is present after a step without having been present before it
\* only if the step served a POST /api/attendance/mark for that row's lesson
\* and student, the lesson exists with otp_enabled = 1, at most 20 minutes
\* have elapsed since its start_time, and the submitted code equals the code
\* stored in the row.  No row is created present.
C1_PresentOnlyByValidMark ==
    [][\A q \in attendance' :
         (q.status = "present" /\ q \notin attendance) =>
            /\ req'.route = MarkRoute
            /\ res'.status = 200
            /\ req'.lesson_id = q.lesson_id
            /\ req'.student_id = q.student_id
            /\ \E p \in attendance :
                 /\ SameRow(p, q)
                 /\ p.status # "present"
                 /\ p.lesson_id = q.lesson_id /\ p.student_id = q.student_id
                 /\ req'.otp = p.otp
            /\ \E l \in lessons :
                 /\ l.id = q.lesson_id
                 /\ l.otp_enabled = 1
                 /\ now - l.start_time <= WindowMs]_vars

\* A submission has just turned a row present.
C1_Witness ==
    /\ MarkSucceeded
    /\ \E r \in attendance :
         /\ r.status = "present" /\ r.marked_at = now
         /\ r.lesson_id = req.lesson_id /\ r.student_id = req.student_id
         /\ r.otp = req.otp

\* C2: present is terminal: a row that is present keeps its status and its
\* marked_at in every step that keeps the row.
C2_PresentIsTerminal ==
    [][\A p \in attendance : \A q \in attendance' :
         (SameRow(p, q) /\ p.status = "present") =>
            (q.status = "present" /\ q.marked_at = p.marked_at)]_vars

\* The expiry sweep of a poll has run over a lesson that holds a present row.
C2_Witness ==
    /\ req.route = "GET /api/lessons/active"
    /\ \E r \in attendance, l \in lessons :
         /\ r.status = "present" /\ r.lesson_id = l.id
         /\ res.body = l.id
         /\ now - l.start_time > WindowMs

\* C3: a row changes status only from pending, and then to present or to
\* absent; so it changes at most once, and an absent row never becomes
\* present.
C3_OneTransitionPerRow ==
    [][\A p \in attendance : \A q \in attendance' :
         (SameRow(p, q) /\ q.status # p.status) =>
            (p.status = "pending" /\ q.status \in {"present", "absent"})]_vars

\* A submission with the stored code has been served for an absent row.
C3_Witness ==
    /\ req.route = MarkRoute
    /\ \E r \in attendance :
         /\ r.status = "absent"
         /\ r.lesson_id = req.lesson_id /\ r.student_id = req.student_id
         /\ r.otp = req.otp

\* The request served by the step is a submission of row p's own code for
\* row p's lesson and student.
CorrectSubmission(p) ==
    /\ Serving(MarkRoute)
    /\ req'.lesson_id = p.lesson_id
    /\ req'.student_id = p.student_id
    /\ req'.otp = p.otp
ExpiredError == "OTP has expired (20 minutes elapsed)"
\* The lessons a row belongs to (one, by id).
LessonOf(p) == {l \in lessons : l.id = p.lesson_id}

\* C4 as stated: every correct submission for a row that is already present
\* is rejected with 'Already marked present' and changes nothing.
C4_AsStated ==
    [][\A p \in attendance :
         (p.status = "present" /\ CorrectSubmission(p)) =>
            /\ res'.status = 400
            /\ res'.error = "Already marked present"
            /\ attendance' = attendance]_vars

\* C4 (amended): a submission that succeeds moves the pending row of its
\* lesson and student to present, so at most one submission per row
\* succeeds; every later correct submission for the row is rejected and
\* leaves the table as it is, with 'Already marked present' while at most
\* 20 minutes have elapsed since the lesson's start_time and with the
\* expired error afterwards.
C4_AtMostOneSuccess ==
    [][/\ (Serving(MarkRoute) /\ res'.status = 200) =>
            \E p \in attendance :
               /\ p.status = "pending"
               /\ CorrectSubmission(p)
               /\ attendance' = (attendance \ {p}) \cup
                     {[p EXCEPT !.status = "present", !.marked_at = now]}
       /\ \A p \in attendance :
            (p.status = "present" /\ CorrectSubmission(p)) =>
               /\ res'.status = 400
               /\ attendance' = attendance
               /\ \A l \in LessonOf(p) :
                    res'.error = IF now - l.start_time <= WindowMs
                                   THEN "Already marked present"
                                   ELSE ExpiredError]_vars

\* A second correct submission has been rejected as already marked.
C4_Witness ==
    /\ req.route = MarkRoute
    /\ res.error = "Already marked present"
    /\ \E r \in attendance :
         /\ r.status = "present" /\ r.marked_at <= now
         /\ r.lesson_id = req.lesson_id /\ r.student_id = req.student_id
         /\ r.otp = req.otp

\* C5: for a lesson with otp_enabled = 1, a submission of the stored code of
\* a pending row succeeds whenever at most 20 minutes have elapsed since
\* start_time (exactly 20 included) and sets the row present with marked_at
\* the current time; every submission after more than 20 minutes is rejected
\* with the expired error, whatever the code.
C5_ExpiryAtTwentyMinutes ==
    [][\A l \in lessons :
         (/\ Serving(MarkRoute)
          /\ req'.lesson_id = l.id
          /\ l.otp_enabled = 1) =>
            /\ now - l.start_time > WindowMs =>
                 (res'.status = 400 /\ res'.error = ExpiredError)
            /\ now - l.start_time <= WindowMs =>
                 \A p \in attendance :
                   (p.status = "pending" /\ CorrectSubmission(p)) =>
                      /\ res'.status = 200
                      /\ [p EXCEPT !.status = "present", !.marked_at = now]
                            \in attendance']_vars

\* A submission has succeeded exactly 20 minutes after start_time.
C5_Witness ==
    /\ MarkSucceeded
    /\ \E r \in attendance, l \in lessons :
         /\ l.id = r.lesson_id /\ r.lesson_id = req.lesson_id
         /\ r.student_id = req.student_id
         /\ r.status = "present" /\ r.marked_at = now
         /\ now - l.start_time = WindowMs

\* C6 as stated: a submission succeeds only for the active lesson, the most
\* recently created lesson if it started within the last 24 hours.
C6_MarkOnlyActiveLesson ==
    [][(Serving(MarkRoute) /\ res'.status = 200) =>
         \E l \in lessons :
            /\ l.id = req'.lesson_id
            /\ \A m \in lessons : m.id <= l.id
            /\ now - l.start_time <= 24 * 60 * 60 * 1000]_vars

\* C7 as stated: a lesson's otp_enabled flag, once 1, stays 1.
C7_AsStated ==
    [][\A l \in lessons : \A m \in lessons' :
         (m.id = l.id /\ l.otp_enabled = 1) => m.otp_enabled = 1]_vars

\* C7 (amended): a lesson's otp_enabled flag, once 1, stays 1 under every
\* operation except a successful POST /api/lessons/restart, which sets the
\* flag of the lesson it restarts (the latest lesson) back to 0.
C7_ClearedOnlyByRestart ==
    [][\A l \in lessons : \A m \in lessons' :
         (m.id = l.id /\ l.otp_enabled = 1 /\ m.otp_enabled # 1) =>
            /\ req'.route = "POST /api/lessons/restart"
            /\ res'.status = 200
            /\ m.start_time = now
            /\ \A k \in lessons : k.id <= l.id]_vars

\* Submissions have been served after the flag was set, and it is still set.
C7_Witness ==
    /\ MarkSucceeded
    /\ \E l \in lessons : l.id = req.lesson_id /\ l.otp_enabled = 1

\* C8: there is at most one attendance row per (lesson, student) pair.
C8_OneRowPerPair ==
    \A p, q \in attendance :
       (p.lesson_id = q.lesson_id /\ p.student_id = q.student_id) => p = q

\* A restart has put new rows in the place of the old ones of a lesson with
\* two students.
C8_Witness ==
    /\ req.route = "POST /api/lessons/restart" /\ res.status = 200
    /\ Cardinality(attendance) = 2
    /\ seq.attendance = 4
    /\ \A r \in attendance : r.id > 2

\* The rows of a lesson.
RowsOf(rows, lessonId) == {r \in rows : r.lesson_id = lessonId}
\* The rows of the lesson are one pending row without marked_at per
\* registered student and nothing else.
FreshRows(rows, lessonId) ==
    /\ \A r \in RowsOf(rows, lessonId) :
         /\ r.student_id \in StudentIds
         /\ r.status = "pending"
         /\ r.marked_at = NULL
    /\ \A sid \in StudentIds :
         Cardinality({r \in RowsOf(rows, lessonId) : r.student_id = sid}) = 1

\* C9: a successful POST /api/lessons/start adds exactly one lesson, with
\* otp_enabled = 0, lecturer_present = 0 and start_time = now, and leaves that
\* lesson with exactly one pending row without marked_at per registered
\* student and no other row.
C9_StartCreatesLessonAndRows ==
    [][(Serving("POST /api/lessons/start") /\ res'.status = 200) =>
         /\ lessons \subseteq lessons'
         /\ Cardinality(lessons' \ lessons) = 1
         /\ \A l \in lessons' \ lessons :
              /\ l.id \notin {m.id : m \in lessons}
              /\ l.otp_enabled = 0
              /\ l.lecturer_present = 0
              /\ l.start_time = now
              /\ RowsOf(attendance, l.id) = {}
              /\ FreshRows(attendance', l.id)]_vars

\* A lesson has been started for two registered students.
C9_Witness ==
    /\ req.route = "POST /api/lessons/start" /\ res.status = 200
    /\ Cardinality(students) = 2
    /\ Cardinality(RowsOf(attendance, res.body)) = 2

\* C10: a POST /api/lessons/restart that finds an active lesson (and so
\* succeeds) creates no lesson, acts on the latest lesson, sets its
\* start_time to now, removes every row that lesson had and leaves it with
\* exactly one pending row per registered student; the other lessons and
\* their rows are unchanged.
C10_RestartResetsActiveLesson ==
    [][(Serving("POST /api/lessons/restart") /\ res'.status = 200) =>
              \E a \in lessons :
                 /\ \A m \in lessons : m.id <= a.id
                 /\ now - a.start_time <= 24 * 60 * 60 * 1000
                 /\ {m.id : m \in lessons'} = {m.id : m \in lessons}
                 /\ \A m \in lessons' : m.id = a.id => m.start_time = now
                 /\ RowsOf(attendance', a.id) \cap RowsOf(attendance, a.id) = {}
                 /\ {r.id : r \in RowsOf(attendance', a.id)}
                       \cap {r.id : r \in attendance} = {}
                 /\ FreshRows(attendance', a.id)
                 /\ \A m \in lessons :
                      m.id # a.id =>
                        /\ m \in lessons'
                        /\ RowsOf(attendance', m.id) = RowsOf(attendance, m.id)
      ]_vars

\* A restart has replaced the rows of the latest lesson while an earlier
\* lesson holds a row, later than the lesson's first start.
C10_Witness ==
    /\ req.route = "POST /api/lessons/restart" /\ res.status = 200
    /\ \E a, b \in lessons :
         /\ a.id > b.id
         /\ a.start_time = now /\ now > 0
         /\ RowsOf(attendance, b.id) # {}
         /\ \E r \in RowsOf(attendance, a.id) : r.id > Cardinality(attendance)

RestartRoute == "POST /api/lessons/restart"
\* The lesson with the highest id: the one a successful restart acts on.
LatestOf(rows) == {l \in rows : \A m \in rows : m.id <= l.id}

\* C11 as stated: after a successful POST /api/lessons/restart the lecturer
\* code of the restarted lesson and the code of every attendance row of that
\* lesson were drawn by the restart; none is a code stored before it.
C11_RestartRegeneratesOtps ==
    [][(Serving(RestartRoute) /\ res'.status = 200) =>
         \A a \in LatestOf(lessons') :
            /\ Draw("lessons", a.id) \in drawn'
            /\ \A r \in RowsOf(attendance', a.id) :
                 Draw("attendance", r.id) \in drawn']_vars

\* What the restart does draw: the code of every attendance row of the
\* restarted lesson.
RestartRegeneratesStudentOtps ==
    [][(Serving(RestartRoute) /\ res'.status = 200) =>
         \A a \in LatestOf(lessons') :
            \A r \in RowsOf(attendance', a.id) :
               Draw("attendance", r.id) \in drawn']_vars

\* The lecturer code of a lesson never changes while the lesson exists.
LecturerOtpKept ==
    [][\A l \in lessons : \A m \in lessons' :
         m.id = l.id => m.lecturer_otp = l.lecturer_otp]_vars

PollRoute == "GET /api/lessons/active"
DayMs == 24 * 60 * 60 * 1000

\* C12 as stated: when GET /api/lessons/active is served while the latest
\* lesson started at most 24 hours ago, the lesson is returned; if more than
\* 20 minutes have elapsed since its start_time, every row of the lesson
\* that was pending is absent afterwards, every other row of the table is as
\* it was, and the attendance list returned is the lesson's rows after the
\* sweep, none of them pending; if at most 20 minutes have elapsed the poll
\* changes no row.
C12_PollSweepsExpiredLesson ==
    [][Serving(PollRoute) =>
         \A l \in LatestOf(lessons) :
            now - l.start_time <= DayMs =>
               /\ res'.body = l.id
               /\ res'.attendance = RowsOf(attendance', l.id)
               /\ now - l.start_time > WindowMs =>
                    /\ attendance' =
                         {IF p.lesson_id = l.id /\ p.status = "pending"
                            THEN [p EXCEPT !.status = "absent"]
                            ELSE p : p \in attendance}
                    /\ \A r \in res'.attendance : r.status # "pending"
               /\ now - l.start_time <= WindowMs =>
                    attendance' = attendance]_vars

\* What the poll does sweep: the lesson it returns, which is the latest of
\* the lessons that have a unit if that one started at most 24 hours ago.
\* The rows of every other lesson are left as they are.
PollSweepsReturnedLesson ==
    [][Serving(PollRoute) =>
         /\ \A l \in LatestOf({m \in lessons : m.unit_id \in units}) :
              res'.body = IF now - l.start_time <= DayMs THEN l.id ELSE 0
         /\ \A l \in lessons :
              IF res'.body = l.id
                THEN /\ res'.attendance = RowsOf(attendance', l.id)
                     /\ RowsOf(attendance', l.id) =
                          IF now - l.start_time > WindowMs
                            THEN {IF p.status = "pending"
                                    THEN [p EXCEPT !.status = "absent"]
                                    ELSE p : p \in RowsOf(attendance, l.id)}
                            ELSE RowsOf(attendance, l.id)
                ELSE RowsOf(attendance', l.id) = RowsOf(attendance, l.id)]_vars

\* A poll has been answered without the latest lesson, which started more
\* than 20 minutes and less than 24 hours ago and holds a pending row.
PollMissesLatestLesson ==
    /\ req.route = PollRoute
    /\ \E l \in LatestOf(lessons) :
         /\ res.body # l.id
         /\ now - l.start_time > WindowMs /\ now - l.start_time < DayMs
         /\ \E r \in RowsOf(attendance, l.id) : r.status = "pending"

\* C13 as stated: after a POST /api/attendance/mark for a lesson is rejected
\* with the expired error, no row of that lesson is pending.
C13_LateSubmissionSweepsLesson ==
    [][(Serving(MarkRoute) /\ res'.error = ExpiredError) =>
         \A r \in RowsOf(attendance', req'.lesson_id) :
            r.status # "pending"]_vars

\* What the late submission does sweep: the pending row of the submitting
\* student, and no other row.
LateSubmissionSweepsOwnRow ==
    [][(Serving(MarkRoute) /\ res'.error = ExpiredError) =>
         attendance' =
           {IF /\ p.lesson_id = req'.lesson_id
               /\ p.student_id = req'.student_id
               /\ p.status = "pending"
              THEN [p EXCEPT !.status = "absent"]
              ELSE p : p \in attendance}]_vars

\* C14 as stated: the handlers agree on the active lesson.  Whenever
\* GET /api/lessons/active is served, the lesson it returns is the lesson
\* the query of POST /api/students and POST /api/lessons/restart selects in
\* the same state, and it returns null exactly when that query selects none.
C14_HandlersAgreeOnActiveLesson ==
    [][Serving(PollRoute) =>
         /\ res'.body = 0 <=> ActiveLessonSql = {}
         /\ \A a \in ActiveLessonSql : res'.body = a.id]_vars

\* Where the handlers do agree: when the latest lesson has a unit (the poll
\* joins units, the other query does not) and its elapsed time is not the
\* 24th hour itself (in whole seconds).
HandlersAgreeOffTheBoundary ==
    [][Serving(PollRoute) =>
         \A l \in LatestOf(lessons) :
            (/\ l.unit_id \in units
             /\ SqlDatetime(now) - SqlDatetime(l.start_time)
                   # ActiveHours * 3600) =>
               /\ res'.body = 0 <=> ActiveLessonSql = {}
               /\ \A a \in ActiveLessonSql : res'.body = a.id]_vars

LecturerRoute == "POST /api/lecturer/mark"

\* C15: a lesson has lecturer_present = 1 after a step without having had it
\* before only if the step served a successful POST /api/lecturer/mark for
\* that lesson whose code equals the lesson's stored lecturer_otp (no lesson
\* is created with the flag set); a POST /api/lecturer/mark with any other
\* code for an existing lesson gets an error response and changes no table.
C15_LecturerPresentOnlyByValidMark ==
    [][/\ \A m \in lessons' :
            (/\ m.lecturer_present = 1
             /\ \A l \in lessons : l.id = m.id => l.lecturer_present # 1) =>
               /\ Serving(LecturerRoute)
               /\ res'.status = 200
               /\ req'.lesson_id = m.id
               /\ \E l \in lessons :
                    /\ l.id = m.id
                    /\ l.lecturer_otp = req'.otp
                    /\ m = [l EXCEPT !.lecturer_present = 1]
       /\ \A l \in lessons :
            (/\ Serving(LecturerRoute)
             /\ req'.lesson_id = l.id
             /\ req'.otp # l.lecturer_otp) =>
               /\ res'.status = 400
               /\ res'.error = "Invalid Lecturer OTP"
               /\ UNCHANGED <<students, units, lessons, attendance, seq>>]_vars

\* A submission of the stored lecturer code has set the flag of a lesson that
\* is not the latest one, while the other lesson's flag is still 0.
C15_Witness ==
    /\ req.route = LecturerRoute
    /\ res.status = 200
    /\ \E l, k \in lessons :
         /\ l.id = req.lesson_id /\ l.id < k.id
         /\ l.lecturer_otp = req.otp
         /\ l.lecturer_present = 1
         /\ k.lecturer_present = 0

\* C16: lecturer verification is single-shot and monotone.  A submission of
\* a lesson's stored lecturer code succeeds and leaves the lesson with
\* lecturer_present = 1; a submission (correct or not) for a lesson whose
\* flag is already 1 changes no table; and a lesson whose flag is 1 keeps it
\* in every step that keeps the lesson, a restart included.
C16_LecturerPresentSingleShot ==
    [][/\ \A l \in lessons :
            (/\ Serving(LecturerRoute)
             /\ req'.lesson_id = l.id
             /\ req'.otp = l.lecturer_otp) =>
               /\ res'.status = 200
               /\ lessons' = (lessons \ {l}) \cup
                     {[l EXCEPT !.lecturer_present = 1]}
       /\ \A l \in lessons :
            (/\ Serving(LecturerRoute)
             /\ req'.lesson_id = l.id
             /\ l.lecturer_present = 1) =>
               UNCHANGED <<students, units, lessons, attendance, seq>>
       /\ \A l \in lessons : \A m \in lessons' :
            (m.id = l.id /\ l.lecturer_present = 1) =>
               m.lecturer_present = 1]_vars

\* A restart has been served for a lesson whose lecturer was verified, and
\* the flag is still 1.
C16_Witness ==
    /\ req.route = RestartRoute /\ res.status = 200
    /\ now > 0
    /\ \E l \in LatestOf(lessons) :
         /\ l.start_time = now
         /\ l.otp_enabled = 0
         /\ l.lecturer_present = 1

\* C17 as stated: a POST /api/lecturer/mark succeeds only under the gates of
\* a student submission: the lesson is the latest lesson and started within
\* the last 24 hours, its otp_enabled is 1, and at most 20 minutes have
\* elapsed since its start_time.
C17_LecturerMarkGated ==
    [][(Serving(LecturerRoute) /\ res'.status = 200) =>
         \E l \in LatestOf(lessons) :
            /\ l.id = req'.lesson_id
            /\ now - l.start_time <= DayMs
            /\ l.otp_enabled = 1
            /\ now - l.start_time <= WindowMs]_vars

\* The gates the lecturer submission does have: the lesson exists and the
\* code equals its stored lecturer_otp.
LecturerMarkGates ==
    [][Serving(LecturerRoute) =>
         (res'.status = 200 <=>
            \E l \in lessons :
               l.id = req'.lesson_id /\ l.lecturer_otp = req'.otp)]_vars

DeleteStudentRoute == "DELETE /api/students/:id"

\* C18: a DELETE /api/students/:id succeeds and leaves the students table
\* without that student and the attendance table without every row of that
\* student, in any lesson; every other student, every other attendance row,
\* the units and the lessons are as they were.
C18_DeleteStudentCascades ==
    [][Serving(DeleteStudentRoute) =>
         /\ res'.status = 200
         /\ students' = {s \in students : s.id # req'.student_id}
         /\ attendance' =
              {r \in attendance : r.student_id # req'.student_id}
         /\ \A r \in attendance' : r.student_id # req'.student_id
         /\ UNCHANGED <<units, lessons>>]_vars

\* A student with a row has been deleted while another student keeps a row.
C18_Witness ==
    /\ req.route = DeleteStudentRoute /\ res.status = 200
    /\ req.student_id \notin StudentIds
    /\ req.student_id <= seq.students
    /\ seq.attendance = 2
    /\ \E r \in attendance :
         /\ attendance = {r}
         /\ r.student_id \in StudentIds
         /\ r.student_id # req.student_id

DeleteUnitRoute == "DELETE /api/units/:id"

\* C19: a DELETE /api/units/:id succeeds and leaves the tables without that
\* unit, without every lesson of that unit and without every attendance row
\* of those lessons; the other units, the lessons of other units with their
\* attendance rows, and the students are as they were.
C19_DeleteUnitCascades ==
    [][Serving(DeleteUnitRoute) =>
         /\ res'.status = 200
         /\ units' = units \ {req'.unit_id}
         /\ lessons' = {l \in lessons : l.unit_id # req'.unit_id}
         /\ attendance' =
              {r \in attendance :
                 \A l \in lessons :
                    l.id = r.lesson_id => l.unit_id # req'.unit_id}
         /\ \A r \in attendance' : \E l \in lessons' : l.id = r.lesson_id
         /\ UNCHANGED students]_vars

\* A unit with a lesson and an attendance row has been deleted while the
\* lesson of another unit keeps its row.
C19_Witness ==
    /\ req.route = DeleteUnitRoute /\ res.status = 200
    /\ req.unit_id \notin units
    /\ seq.lessons = 2 /\ seq.attendance = 2
    /\ \E l \in lessons, r \in attendance :
         /\ lessons = {l} /\ attendance = {r}
         /\ l.unit_id \in units
         /\ r.lesson_id = l.id

PostStudentRoute == "POST /api/students"
PutStudentRoute == "PUT /api/students/:id"
DuplicateError == "Admission number already exists"

\* C20: in every reachable state no two students have the same admission
\* number; a POST /api/students with an admission number a student holds,
\* and a PUT /api/students/:id of a student with an admission number another
\* student holds, are answered with status 400 and change no table: no
\* student is created or modified and no attendance row is added.
C20_AdmissionNumbersUnique ==
    /\ [](\A s, t \in students :
            s.admission_number = t.admission_number => s = t)
    /\ [][/\ (/\ Serving(PostStudentRoute)
              /\ \E s \in students :
                   s.admission_number = req'.admission_number) =>
                /\ res'.status = 400 /\ res'.error = DuplicateError
                /\ UNCHANGED <<students, units, lessons, attendance, seq>>
          /\ (/\ Serving(PutStudentRoute)
              /\ req'.student_id \in StudentIds
              /\ \E s \in students :
                   /\ s.id # req'.student_id
                   /\ s.admission_number = req'.admission_number) =>
                /\ res'.status = 400 /\ res'.error = DuplicateError
                /\ UNCHANGED <<students, units, lessons, attendance, seq>>
      ]_vars

\* An update of one student to the admission number of another has been
\* rejected during a session in which both have a row.
C20_Witness ==
    /\ req.route = PutStudentRoute
    /\ res.status = 400 /\ res.error = DuplicateError
    /\ \E s, t \in students :
         /\ s.id = req.student_id /\ t.id # s.id
         /\ t.admission_number = req.admission_number
         /\ s.admission_number # t.admission_number
    /\ Cardinality(attendance) = 2

\* The latest lesson started less than 24 hours ago, in whole seconds, as
\* the registration handler reads the clock.
StartedWithinDay(l) ==
    SqlDatetime(now) - SqlDatetime(l.start_time) < 24 * 60 * 60

\* C21: a successful POST /api/students adds one student with a new id.  If
\* the latest lesson started within the last 24 hours the student gets
\* exactly one attendance row, for that lesson and for no other: pending
\* when at most 20 minutes have elapsed since the lesson's start_time and
\* absent when more have, without marked_at.  Otherwise no attendance row is
\* added.  Every other row is as it was.
C21_RegistrationJoinsActiveLesson ==
    [][(Serving(PostStudentRoute) /\ res'.status = 200) =>
         \E s \in students' :
            /\ s.id \notin StudentIds
            /\ s.id = res'.body
            /\ students' = students \cup {s}
            /\ IF \E l \in LatestOf(lessons) : StartedWithinDay(l)
                 THEN \A l \in LatestOf(lessons) :
                        \E r \in attendance' :
                           /\ r \notin attendance
                           /\ attendance' = attendance \cup {r}
                           /\ {q \in attendance' : q.student_id = s.id} = {r}
                           /\ r.lesson_id = l.id
                           /\ r.marked_at = NULL
                           /\ r.status = IF now - l.start_time > WindowMs
                                           THEN "absent" ELSE "pending"
                 ELSE attendance' = attendance]_vars

\* A student has been registered more than 20 minutes into the latest of two
\* lessons and has an absent row for it and no row for the other.
C21_Witness ==
    /\ req.route = PostStudentRoute /\ res.status = 200
    /\ \E l, k \in lessons :
         /\ k.id < l.id
         /\ now - l.start_time > WindowMs
         /\ \E r \in attendance :
              /\ RowsOf(attendance, l.id) = {r}
              /\ r.student_id = res.body /\ r.status = "absent"
         /\ RowsOf(attendance, k.id) = {}

EnableRoute == "POST /api/lessons/:id/enable-otp"

\* C22 as stated: an operation whose lesson is missing is answered with an
\* HTTP error and changes no table: a restart when no lesson started within
\* the last 24 hours, and an enable-otp, a student mark or a lecturer mark
\* whose lesson id names no lesson.
C22_MissingLessonIsAnError ==
    [][/\ (/\ Serving(RestartRoute)
           /\ \A l \in lessons : ~StartedWithinDay(l)) =>
             /\ res'.status >= 400
             /\ UNCHANGED <<students, units, lessons, attendance, seq>>
       /\ (/\ \/ Serving(EnableRoute)
              \/ Serving(MarkRoute)
              \/ Serving(LecturerRoute)
           /\ \A l \in lessons : l.id # req'.lesson_id) =>
             /\ res'.status >= 400
             /\ UNCHANGED <<students, units, lessons, attendance, seq>>]_vars

\* What holds of the operations other than enable-otp: a restart without an
\* active lesson and a student or lecturer mark for a missing lesson are
\* answered 404 and change no table and broadcast nothing.
MissingLessonIsNotFound ==
    [][/\ (/\ Serving(RestartRoute)
           /\ \A l \in lessons : ~StartedWithinDay(l)) =>
             /\ res'.status = 404 /\ res'.emit = "none"
             /\ UNCHANGED <<students, units, lessons, attendance, seq>>
       /\ (/\ Serving(MarkRoute) \/ Serving(LecturerRoute)
           /\ \A l \in lessons : l.id # req'.lesson_id) =>
             /\ res'.status = 404 /\ res'.emit = "none"
             /\ UNCHANGED <<students, units, lessons, attendance, seq>>]_vars

\* What enable-otp does for a missing lesson: it answers 200, broadcasts
\* 'otp-enabled' and changes no table.
EnableOtpOfMissingLesson ==
    [][(/\ Serving(EnableRoute)
        /\ \A l \in lessons : l.id # req'.lesson_id) =>
          /\ res'.status = 200 /\ res'.emit = "otp-enabled"
          /\ UNCHANGED <<students, units, lessons, attendance, seq>>]_vars

\* C23 as stated: every request that changes the lessons or the attendance
\* table broadcasts an event.
C23_MutationsAreBroadcast ==
    [][(lessons' # lessons \/ attendance' # attendance) =>
         res'.emit # "none"]_vars

\* The requests that do broadcast: a successful lesson start, restart and
\* student or lecturer mark, every enable-otp, and a registration that adds
\* an attendance row; and the changes made without a broadcast are those of
\* the two deletes and of the two expiry updates.
BroadcastingRequests ==
    [][/\ (/\ \/ Serving("POST /api/lessons/start")
              \/ Serving(RestartRoute)
              \/ Serving(MarkRoute)
              \/ Serving(LecturerRoute)
           /\ res'.status = 200) => res'.emit = "attendance-updated"
       /\ Serving(EnableRoute) => res'.emit = "otp-enabled"
       /\ (Serving(PostStudentRoute) /\ attendance' # attendance) =>
             res'.emit = "attendance-updated"
       /\ (/\ lessons' # lessons \/ attendance' # attendance
           /\ res'.emit = "none") =>
             \/ Serving(DeleteStudentRoute)
             \/ Serving(DeleteUnitRoute)
             \/ Serving(PollRoute)
             \/ Serving(MarkRoute) /\ res'.error = ExpiredError]_vars

\* C24: a POST /api/attendance/mark that is rejected changes no student, no
\* unit and no lesson and broadcasts nothing.  Rejected with 'Lesson not
\* found', 'OTP input is not yet enabled', 'Invalid OTP' or 'Already marked
\* present' it changes no attendance row either; rejected with the expired
\* error it adds and removes no row and changes nothing in a row except a
\* status from pending to absent.
C24_RejectedMarkIsTerminal ==
    [][(Serving(MarkRoute) /\ res'.status # 200) =>
         /\ UNCHANGED <<students, units, lessons, seq>>
         /\ res'.emit = "none"
         /\ res'.error \in
              {"Lesson not found",
               "OTP input is not yet enabled by the representative",
               "Invalid OTP", "Already marked present", ExpiredError}
         /\ res'.error # ExpiredError => attendance' = attendance
         /\ res'.error = ExpiredError =>
              /\ {r.id : r \in attendance'} = {r.id : r \in attendance}
              /\ \A p \in attendance : \A q \in attendance' :
                   (SameRow(p, q) /\ q # p) =>
                      /\ p.status = "pending"
                      /\ q = [p EXCEPT !.status = "absent"]]_vars

\* A submission has been rejected with the expired error and has left the
\* student's row absent and unmarked, next to a row that is still pending.
C24_Witness ==
    /\ req.route = MarkRoute /\ res.error = ExpiredError
    /\ \E r, q \in attendance :
         /\ r.lesson_id = req.lesson_id /\ r.student_id = req.student_id
         /\ r.status = "absent" /\ r.marked_at = NULL
         /\ q.lesson_id = req.lesson_id /\ q.status = "pending"

\* ------------------------------------------------------------ liveness
\* A GET /api/lessons/active is served and then the clock moves to its next
\* reading: no reading is skipped and none passes without a poll.
PolledTick ==
    /\ Poll
    /\ UNCHANGED portal
    /\ \E t \in workload.instants :
         /\ t > now
         /\ \A u \in workload.instants : u > now => t <= u
         /\ now' = t

LiveNext == PolledTick \/ Requests

\* Time keeps advancing and clients keep polling GET /api/lessons/active,
\* at every reading of the clock.
LiveSpec ==
    Init /\ [][LiveNext]_vars /\ WF_vars(PolledTick) /\ WF_vars(GetActiveLesson)

\* The attendance row with the id is pending.
PendingRow(id) == \E r \in attendance : r.id = id /\ r.status = "pending"
\* The row is pending and the marking window of its lesson has ended.
PendingAfterWindow(id) ==
    \E r \in attendance :
       /\ r.id = id /\ r.status = "pending"
       /\ \E l \in lessons : l.id = r.lesson_id /\ Expired(l)

\* C25 as stated: while time advances and clients keep polling, no
\* attendance row stays pending forever; in particular a row that is still
\* pending when the window of its lesson has ended eventually becomes
\* present or absent or is deleted.
C25_PendingRowsEventuallySettle ==
    \A id \in 1..MaxAttendance : PendingAfterWindow(id) ~> ~PendingRow(id)

\* A poll has just been answered with the latest lesson while a row of an
\* earlier lesson, whose window has ended, is still pending.
SupersededRowStaysPending ==
    /\ req.route = PollRoute
    /\ \E l, k \in lessons, r \in attendance :
         /\ k.id < l.id /\ res.body = l.id
         /\ r.lesson_id = k.id /\ r.status = "pending"
         /\ Expired(k) /\ Expired(l)

\* A poll changes no row of a lesson other than the one it returns, and
\* restarts, registrations and lesson starts never change a row of a lesson
\* that is not the latest one.
SupersededRowsLeftAlone ==
    [][/\ Serving(PollRoute) =>
            \A l \in lessons :
               l.id # res'.body =>
                  RowsOf(attendance', l.id) = RowsOf(attendance, l.id)
       /\ (\/ Serving(RestartRoute) \/ Serving(PostStudentRoute)
           \/ Serving("POST /api/lessons/start")) =>
            \A l \in lessons :
               (\E k \in lessons : k.id > l.id) =>
                  RowsOf(attendance', l.id) = RowsOf(attendance, l.id)]_vars

\* C26 as stated: every attendance row references an existing lesson and an
\* existing student, and every lesson references an existing unit.
C26_ReferentialIntegrity ==
    /\ \A r \in attendance :
         /\ \E l \in lessons : l.id = r.lesson_id
         /\ r.student_id \in StudentIds
    /\ \A l \in lessons : l.unit_id \in units

\* The part that holds: every attendance row references an existing lesson
\* and an existing student, and a lesson references an existing unit or none
\* (unit_id NULL).
ReferencesExistOrAreNull ==
    /\ \A r \in attendance :
         /\ \E l \in lessons : l.id = r.lesson_id
         /\ r.student_id \in StudentIds
    /\ \A l \in lessons : l.unit_id \in units \cup {NULL}

\* C27 as stated: whenever the latest lesson started within the last 24
\* hours, every registered student has an attendance row for it.
C27_ActiveLessonCoversStudents ==
    \A l \in LatestOf(lessons) :
       StartedWithinDay(l) =>
          \A s \in students :
             \E r \in attendance :
                r.lesson_id = l.id /\ r.student_id = s.id

\* Coverage is kept by every request but the unit delete: if it holds before
\* a step that is not a DELETE /api/units/:id, it holds after it.
CoverageKeptExceptByUnitDelete ==
    [][(C27_ActiveLessonCoversStudents /\ ~Serving(DeleteUnitRoute)) =>
         C27_ActiveLessonCoversStudents']_vars

C29_MarkChangesOnlyItsRow ==
    [][(Serving(MarkRoute) /\ res'.status = 200) =>
         /\ UNCHANGED <<students, units, lessons, seq>>
         /\ \E p \in attendance :
              /\ p.lesson_id = req'.lesson_id
              /\ p.student_id = req'.student_id
              /\ attendance' \ attendance =
                   {[p EXCEPT !.status = "present", !.marked_at = now]}
              /\ attendance \ attendance' = {p}
         /\ \A q \in attendance :
              (q.lesson_id # req'.lesson_id \/ q.student_id # req'.student_id)
                 => q \in attendance']_vars

\* A submission has succeeded while the row of another student of the same
\* lesson, which holds the same code, is still pending.
C29_Witness ==
    /\ MarkSucceeded
    /\ \E r, q \in attendance :
         /\ r.lesson_id = req.lesson_id /\ r.student_id = req.student_id
         /\ r.status = "present"
         /\ q.lesson_id = r.lesson_id /\ q.student_id # r.student_id
         /\ q.otp = req.otp /\ q.status = "pending"

\* ------------------------------------------------- the student portal
\* The server together with one mounted StudentPortal: the portal refreshes
\* at any time (on mount, on a change of the selection, on every broadcast),
\* and its form selects a student of the table or the empty option and
\* submits a code.
PortalNext ==
    \/ Tick
    \/ Requests
    \/ FetchStatus
    \/ \E id \in StudentIds \cup {NULL} : SelectStudent(id)
    \/ \E otp \in Codes : HandleSubmit(otp)

\* The portal is run on the workload with two units and two lessons, where
\* a lesson is restarted and a second lesson is started within its window.
PortalInit == Init /\ workload.units = MaxUnits

PortalSpec == PortalInit /\ [][PortalNext]_vars

\* The portal renders 'You are Present!': a lesson is stored and isMarked is
\* set.
ShowsPresent(p) == p.activeLesson # NULL /\ p.isMarked

\* C30: after a refresh of the portal (fetchStatus), whatever the server did
\* before it (a restart of the session and the start of a new lesson
\* included), the portal shows 'You are Present!' only if the attendance row
\* of the selected student for the lesson the server returned has status
\* present.
C30_PortalAgreesAfterRefresh ==
    [][FetchStatus =>
         (ShowsPresent(portal') =>
            \E r \in attendance' :
               /\ r.lesson_id = portal'.activeLesson
               /\ r.student_id = portal'.selectedStudent
               /\ r.status = "present")]_vars

\* The portal has just refreshed and shows the confirmation while the row of
\* the selected student for the returned lesson is pending.
PortalShowsStalePresent ==
    /\ req.route = PollRoute
    /\ res.body # 0
    /\ portal.activeLesson = res.body
    /\ ShowsPresent(portal)
    /\ \E r \in attendance :
         /\ r.lesson_id = portal.activeLesson
         /\ r.student_id = portal.selectedStudent
         /\ r.status = "pending"

\* The other direction holds: after a refresh, a present row of the selected
\* student for the returned lesson is shown as 'You are Present!'.
PresentRowIsShown ==
    [][FetchStatus =>
         \A r \in attendance' :
            (/\ r.lesson_id = portal'.activeLesson
             /\ r.student_id = portal'.selectedStudent
             /\ r.status = "present") => ShowsPresent(portal')]_vars
====
